---- MODULE Spec2Model ----
(***************************************************************************)
(* Booking-and-ledger core of the carpool backend: TripService,            *)
(* BookingService, UserService (credit) and PaymentService over the        *)
(* PostgreSQL tables trips, bookings, credit_transactions, payments,       *)
(* user_activity_logs and the users.credit_balance column.                 *)
(*                                                                         *)
(* db is the committed content of the database.  Every service method      *)
(* runs inside transaction(callback) (config/database.js): BEGIN, the      *)
(* statements of the callback, COMMIT, or ROLLBACK when a statement        *)
(* throws.  A method is an operator from the database before the call to   *)
(* the record [db |-> database after, res |-> "ok" or the error raised].   *)
(* Money is an integer number of the currency's minor unit; row ids are    *)
(* positions in the table; 0 stands for SQL NULL.                          *)
(***************************************************************************)
EXTENDS Integers, Sequences, FiniteSets, TLC

\* ---------------------------------------------------------------- bounds
\* transactions committed in a run; seats of a vehicle (the route allows 8);
\* trips offered
MaxCommits == 5
MaxSeats == 2
MaxTrips == 1
\* credit transactions before a purchase or a deduction; payments made
MaxLedger == 2
MaxPayments == 1

\* ------------------------------------------------------------- the domain
Users == {1, 2, 3}
\* users with is_driver = true, status = 'active', license_verified = true
Drivers == {1}
\* users.credit_balance as seeded; no statement of the services writes it
InitialBalance == [u \in Users |-> IF u = 2 THEN 2000 ELSE IF u = 3 THEN 1000 ELSE 0]
Prices == {0, 1000}
Amounts == {500}
\* the user whose credit is bought, deducted or spent on a payment directly
Payers == {2}
Methods == {"cash", "credit"}
\* what the clock reads when a request is served (new Date(),
\* CURRENT_TIMESTAMP), in hours, and the departure times a driver enters
Times == {0, 24, 38, 46, 47, 48}
Departures == {48}
SeatCounts == 1..MaxSeats

VARIABLES db, commits, tx

vars == <<db, commits, tx>>

\* ---------------------------------------------------------------- helpers
Ids(table) == 1..Len(table)

LastRow(table) == table[Len(table)]

EmptyDb ==
  [trips |-> <<>>, bookings |-> <<>>, ledger |-> <<>>, payments |-> <<>>,
   logs |-> {}, credit_balance |-> InitialBalance]

\* the rows of user_activity_logs with the given content
LogRows(d, user, type, ref) ==
  {l \in d.logs : l.user_id = user /\ l.activity_type = type /\ l.related = ref}

\* INSERT INTO user_activity_logs (user_id, activity_type, related id): a
\* new row each time; copy tells rows of the same content apart
InsertLog(d, user, type, ref) ==
  [d EXCEPT !.logs = @ \cup {[user_id |-> user, activity_type |-> type, related |-> ref,
                              copy |-> Cardinality(LogRows(d, user, type, ref)) + 1]}]

\* INSERT INTO credit_transactions (...)
InsertLedger(d, user, amount, type, before, after, booking, payment) ==
  [d EXCEPT !.ledger = Append(@,
     [user_id |-> user, amount |-> amount, transaction_type |-> type,
      balance_before |-> before, balance_after |-> after,
      booking_id |-> booking, payment_id |-> payment])]

\* ------------------------------------------------------------ transaction
\* a wrapper without ROLLBACK: the writes made before the throw stay
KeepPartial(d, partial) == partial

\* A statement that throws leaves the writes made so far unpersisted.
Rollback(d, partial) == d

Commit(d, final) == final

\* transaction(callback): writes[k] is the database as the callback sees it
\* after its k-th write; failAt = k > 0 makes the k-th write throw.
transaction(d, writes, failAt) ==
  IF failAt \in 1..Len(writes)
    THEN [db |-> Rollback(d, IF failAt = 1 THEN d ELSE writes[failAt - 1]),
          res |-> "db_error"]
    ELSE [db |-> Commit(d, writes[Len(writes)]), res |-> "ok"]

Fail(d, err) == [db |-> d, res |-> err]

\* ------------------------------------------------------------ TripService
NewTrip(driverId, td) ==
  [driver_id |-> driverId, total_seats |-> td.total_seats,
   available_seats |-> td.available_seats, price_per_seat |-> td.price_per_seat,
   auto_accept_bookings |-> td.auto_accept_bookings,
   departure_time |-> td.departure_time, status |-> "active"]

\* validateTripCreation: the request bodies the route lets through
TripData ==
  [total_seats : SeatCounts, available_seats : SeatCounts, price_per_seat : Prices,
   auto_accept_bookings : BOOLEAN, departure_time : Departures]

createTripWrites(d, driverId, td) ==
  LET w1 == [d EXCEPT !.trips = Append(@, NewTrip(driverId, td))]
      w2 == InsertLog(w1, driverId, "trip_creation", Len(w1.trips))
  IN  <<w1, w2>>

createTrip(d, driverId, td, failAt) ==
  IF driverId \notin Drivers THEN Fail(d, "driver_not_verified")
  ELSE transaction(d, createTripWrites(d, driverId, td), failAt)

\* --------------------------------------------------------- BookingService
\* bookings.status and bookings.payment_status default to 'pending'
NewBooking(passengerId, bd, total_price) ==
  [trip_id |-> bd.trip_id, passenger_id |-> passengerId,
   seats_booked |-> bd.seats_booked, total_price |-> total_price,
   payment_method |-> bd.payment_method, status |-> "pending",
   payment_status |-> "pending", cancelled_by |-> 0]

\* a reservation that leaves the seat count alone
ReserveNone(d, tripId, seats) == d

\* a release that leaves the seat count alone
ReleaseNone(d, tripId, seats) == d

\* a release of one seat whatever the booking held
ReleaseOne(d, tripId, seats) ==
  [d EXCEPT !.trips[tripId].available_seats = @ + 1]

\* UPDATE trips SET available_seats = available_seats - $1 WHERE id = $2
ReserveSeats(d, tripId, seats) ==
  [d EXCEPT !.trips[tripId].available_seats = @ - seats]

\* UPDATE trips SET available_seats = available_seats + $1 WHERE id = $2
ReleaseSeats(d, tripId, seats) ==
  [d EXCEPT !.trips[tripId].available_seats = @ + seats]

SetBookingStatus(d, b, status) == [d EXCEPT !.bookings[b].status = status]

TotalPrice(trip, seats) == trip.price_per_seat * seats

BookingExists(d, tripId, passengerId) ==
  \E b \in Ids(d.bookings) :
     d.bookings[b].trip_id = tripId /\ d.bookings[b].passenger_id = passengerId

\* a debit that records the price with the sign of a top-up
DebitUnsigned(d, passengerId, total_price, b) ==
  LET currentBalance == d.credit_balance[passengerId]
      newBalance == currentBalance - total_price
  IN  InsertLedger(d, passengerId, total_price, "payment",
                   currentBalance, newBalance, b, 0)

DebitBooking(d, passengerId, total_price, b) ==
  LET currentBalance == d.credit_balance[passengerId]
      newBalance == currentBalance - total_price
  IN  InsertLedger(d, passengerId, -total_price, "payment",
                   currentBalance, newBalance, b, 0)

createBookingWrites(d, passengerId, bd) ==
  LET trip == d.trips[bd.trip_id]
      total_price == TotalPrice(trip, bd.seats_booked)
      w1 == [d EXCEPT !.bookings = Append(@, NewBooking(passengerId, bd, total_price))]
      b  == Len(w1.bookings)
      w2 == ReserveSeats(w1, bd.trip_id, bd.seats_booked)
      pay == IF bd.payment_method = "credit"
               THEN LET w3 == DebitBooking(w2, passengerId, total_price, b)
                    IN  <<w3, SetBookingStatus(w3, b, "confirmed")>>
             ELSE IF trip.auto_accept_bookings
               THEN <<SetBookingStatus(w2, b, "confirmed")>>
             ELSE <<>>
      before == <<w1, w2>> \o pay
      wN == InsertLog(before[Len(before)], passengerId, "booking_creation", b)
  IN  before \o <<wN>>

\* the checks without the one of the driver
createBookingByAnyone(d, passengerId, bd, t) ==
  IF \/ bd.trip_id \notin Ids(d.trips)
     \/ d.trips[bd.trip_id].status # "active"
     \/ ~(d.trips[bd.trip_id].departure_time > t)
    THEN "trip_not_available"
  ELSE IF BookingExists(d, bd.trip_id, passengerId) THEN "duplicate_booking"
  ELSE IF d.trips[bd.trip_id].available_seats < bd.seats_booked THEN "insufficient_seats"
  ELSE IF /\ bd.payment_method = "credit"
          /\ d.credit_balance[passengerId] < TotalPrice(d.trips[bd.trip_id], bd.seats_booked)
    THEN "insufficient_credit"
  ELSE "ok"

\* the checks without the one of the trip's status
createBookingAnyStatus(d, passengerId, bd, t) ==
  IF \/ bd.trip_id \notin Ids(d.trips)
     \/ ~(d.trips[bd.trip_id].departure_time > t)
    THEN "trip_not_available"
  ELSE IF d.trips[bd.trip_id].driver_id = passengerId THEN "own_trip"
  ELSE IF BookingExists(d, bd.trip_id, passengerId) THEN "duplicate_booking"
  ELSE IF d.trips[bd.trip_id].available_seats < bd.seats_booked THEN "insufficient_seats"
  ELSE IF /\ bd.payment_method = "credit"
          /\ d.credit_balance[passengerId] < TotalPrice(d.trips[bd.trip_id], bd.seats_booked)
    THEN "insufficient_credit"
  ELSE "ok"

\* the checks without the one of the credit balance
createBookingOnTrust(d, passengerId, bd, t) ==
  IF \/ bd.trip_id \notin Ids(d.trips)
     \/ d.trips[bd.trip_id].status # "active"
     \/ ~(d.trips[bd.trip_id].departure_time > t)
    THEN "trip_not_available"
  ELSE IF d.trips[bd.trip_id].driver_id = passengerId THEN "own_trip"
  ELSE IF BookingExists(d, bd.trip_id, passengerId) THEN "duplicate_booking"
  ELSE IF d.trips[bd.trip_id].available_seats < bd.seats_booked THEN "insufficient_seats"
  ELSE "ok"

createBookingError(d, passengerId, bd, t) ==
  IF \/ bd.trip_id \notin Ids(d.trips)
     \/ d.trips[bd.trip_id].status # "active"
     \/ ~(d.trips[bd.trip_id].departure_time > t)
    THEN "trip_not_available"
  ELSE IF d.trips[bd.trip_id].driver_id = passengerId THEN "own_trip"
  ELSE IF BookingExists(d, bd.trip_id, passengerId) THEN "duplicate_booking"
  ELSE IF d.trips[bd.trip_id].available_seats < bd.seats_booked THEN "insufficient_seats"
  ELSE IF /\ bd.payment_method = "credit"
          /\ d.credit_balance[passengerId] < TotalPrice(d.trips[bd.trip_id], bd.seats_booked)
    THEN "insufficient_credit"
  ELSE "ok"

createBooking(d, passengerId, bd, t, failAt) ==
  LET err == createBookingError(d, passengerId, bd, t)
  IN  IF err # "ok" THEN Fail(d, err)
      ELSE transaction(d, createBookingWrites(d, passengerId, bd), failAt)

\* validateBookingCreation: the request bodies the route lets through
BookingData == [trip_id : 1..MaxTrips, seats_booked : SeatCounts, payment_method : Methods]

\* the checks without the one of the status
confirmAnyStatus(d, bookingId, driverId) ==
  IF bookingId \notin Ids(d.bookings) THEN "booking_not_found"
  ELSE IF d.trips[d.bookings[bookingId].trip_id].driver_id # driverId THEN "not_authorized"
  ELSE "ok"

\* UPDATE bookings SET status = 'confirmed' WHERE id = $2, after the checks
confirmBookingError(d, bookingId, driverId) ==
  IF bookingId \notin Ids(d.bookings) THEN "booking_not_found"
  ELSE IF d.trips[d.bookings[bookingId].trip_id].driver_id # driverId THEN "not_authorized"
  ELSE IF d.bookings[bookingId].status # "pending" THEN "not_pending"
  ELSE "ok"

confirmBookingWrites(d, bookingId, driverId) ==
  LET w1 == SetBookingStatus(d, bookingId, "confirmed")
      w2 == InsertLog(w1, driverId, "booking_confirmation", bookingId)
  IN  <<w1, w2>>

confirmBooking(d, bookingId, driverId, failAt) ==
  LET err == confirmBookingError(d, bookingId, driverId)
  IN  IF err # "ok" THEN Fail(d, err)
      ELSE transaction(d, confirmBookingWrites(d, bookingId, driverId), failAt)

\* hoursUntilDeparture = (departureTime - now) / (1000 * 60 * 60)
HoursUntilDeparture(departure_time, t) == departure_time - t

\* tiers whose thresholds belong to the lower tier
RefundPercentageInclusive(hours) ==
  IF hours <= 2 THEN 50
  ELSE IF hours <= 24 THEN 80
  ELSE 100

\* refundPercentage, in percent
RefundPercentage(hours) ==
  IF hours < 2 THEN 50
  ELSE IF hours < 24 THEN 80
  ELSE 100

\* parseFloat(booking.total_price) * refundPercentage, in tenths of the
\* minor unit: the percentages are multiples of 10
RefundTenths(total_price, pct) == (total_price * pct) \div 10

\* an amount column that drops what is below the minor unit
StoreTruncated(tenths) == tenths \div 10

\* The amount as the column of credit_transactions keeps it: rounded to the
\* minor unit, halves away from zero (amounts are never negative here).  The
\* schema of the table is not among the sources.
StoreAmount(tenths) == (tenths + 5) \div 10

\* the refund as it is stored
RefundAmount(total_price, pct) == StoreAmount(RefundTenths(total_price, pct))

\* booking is the row read at the start; it is refunded when the payment
\* was made: payment by credit and the booking confirmed
RefundDue(booking) ==
  booking.payment_method = "credit" /\ booking.status = "confirmed"

RefundBooking(d, booking, bookingId, refundAmount) ==
  LET currentBalance == d.credit_balance[booking.passenger_id]
      newBalance == currentBalance + refundAmount
  IN  InsertLedger(d, booking.passenger_id, refundAmount, "refund",
                   currentBalance, newBalance, bookingId, 0)

\* the checks without the one of the caller
cancelAnyUser(d, bookingId, userId) ==
  IF bookingId \notin Ids(d.bookings) THEN "booking_not_found"
  ELSE IF d.bookings[bookingId].status = "cancelled" THEN "already_cancelled"
  ELSE "ok"

cancelBookingError(d, bookingId, userId) ==
  IF bookingId \notin Ids(d.bookings) THEN "booking_not_found"
  ELSE IF /\ d.bookings[bookingId].passenger_id # userId
          /\ d.trips[d.bookings[bookingId].trip_id].driver_id # userId
    THEN "not_authorized"
  ELSE IF d.bookings[bookingId].status = "cancelled" THEN "already_cancelled"
  ELSE "ok"

cancelBookingWrites(d, bookingId, userId, t) ==
  LET booking == d.bookings[bookingId]
      hours == HoursUntilDeparture(d.trips[booking.trip_id].departure_time, t)
      refundAmount == RefundAmount(booking.total_price, RefundPercentage(hours))
      w1 == [d EXCEPT !.bookings[bookingId].status = "cancelled",
                      !.bookings[bookingId].cancelled_by = userId]
      w2 == ReleaseSeats(w1, booking.trip_id, booking.seats_booked)
      pay == IF RefundDue(booking) /\ refundAmount > 0
               THEN <<RefundBooking(w2, booking, bookingId, refundAmount)>>
               ELSE <<>>
      before == <<w1, w2>> \o pay
      wN == InsertLog(before[Len(before)], userId, "booking_cancellation", bookingId)
  IN  before \o <<wN>>

cancelBooking(d, bookingId, userId, t, failAt) ==
  LET err == cancelBookingError(d, bookingId, userId)
  IN  IF err # "ok" THEN Fail(d, err)
      ELSE transaction(d, cancelBookingWrites(d, bookingId, userId, t), failAt)

\* ------------------------------------------------ TripService, continued
\* allowedFields of updateTrip that the model's trips carry
UpdateData ==
  [field : {"price_per_seat"}, value : Prices]
    \cup [field : {"available_seats"}, value : 0..MaxSeats]
    \cup [field : {"auto_accept_bookings"}, value : BOOLEAN]
    \cup [field : {"departure_time"}, value : Departures]
    \cup [field : {"status"}, value : {"completed"}]

AllowedField(f) ==
  f \in {"price_per_seat", "available_seats", "auto_accept_bookings", "departure_time"}

\* UPDATE trips SET <field> = <value> WHERE id = $n
SetTripField(trip, upd) ==
  CASE upd.field = "price_per_seat" -> [trip EXCEPT !.price_per_seat = upd.value]
    [] upd.field = "available_seats" -> [trip EXCEPT !.available_seats = upd.value]
    [] upd.field = "auto_accept_bookings" -> [trip EXCEPT !.auto_accept_bookings = upd.value]
    [] upd.field = "departure_time" -> [trip EXCEPT !.departure_time = upd.value]

\* SELECT id, status FROM trips WHERE id = $1 AND driver_id = $2
OwnTrip(d, tripId, driverId) ==
  tripId \in Ids(d.trips) /\ d.trips[tripId].driver_id = driverId

updateTripError(d, tripId, driverId, upd) ==
  IF ~OwnTrip(d, tripId, driverId) THEN "trip_not_found"
  ELSE IF d.trips[tripId].status # "active" THEN "trip_not_active"
  ELSE IF ~AllowedField(upd.field) THEN "no_valid_fields"
  ELSE "ok"

\* an update that also prices the bookings of the trip anew
updateTripRepricing(d, tripId, driverId, upd) ==
  LET w1 == [d EXCEPT !.trips[tripId] = SetTripField(@, upd)]
      w2 == [w1 EXCEPT !.bookings =
               [b \in Ids(w1.bookings) |->
                  IF w1.bookings[b].trip_id = tripId
                    THEN [w1.bookings[b] EXCEPT !.total_price =
                            TotalPrice(w1.trips[tripId], w1.bookings[b].seats_booked)]
                    ELSE w1.bookings[b]]]
      w3 == InsertLog(w2, driverId, "trip_update", tripId)
  IN  <<w2, w3>>

updateTripWrites(d, tripId, driverId, upd) ==
  LET w1 == [d EXCEPT !.trips[tripId] = SetTripField(@, upd)]
      w2 == InsertLog(w1, driverId, "trip_update", tripId)
  IN  <<w1, w2>>

updateTrip(d, tripId, driverId, upd, failAt) ==
  LET err == updateTripError(d, tripId, driverId, upd)
  IN  IF err # "ok" THEN Fail(d, err)
      ELSE transaction(d, updateTripWrites(d, tripId, driverId, upd), failAt)

\* SELECT id, passenger_id, total_price FROM bookings
\* WHERE trip_id = $1 AND status IN ('pending', 'confirmed')
SelectLiveBookings(table, tripId) ==
  SelectSeq([i \in 1..Len(table) |-> i],
            LAMBDA i : /\ table[i].trip_id = tripId
                       /\ table[i].status \in {"pending", "confirmed"})

\* UPDATE bookings SET status = 'cancelled', cancelled_by = $2, ...
\* the statement has no WHERE clause: it updates every row of bookings
CancelBookingsOfTrip(d, driverId) ==
  [d EXCEPT !.bookings =
     [b \in Ids(d.bookings) |->
        [d.bookings[b] EXCEPT !.status = "cancelled", !.cancelled_by = driverId]]]

\* the refund of cancelTrip: the full price, to every booking selected
RefundTripBooking(d, booking, bookingId) ==
  LET currentBalance == d.credit_balance[booking.passenger_id]
      newBalance == currentBalance + booking.total_price
  IN  InsertLedger(d, booking.passenger_id, booking.total_price, "refund",
                   currentBalance, newBalance, bookingId, 0)

\* for (const booking of bookingsResult.rows) { cancel; refund }
RECURSIVE cancelTripLoop(_, _, _, _)
cancelTripLoop(d, rows, selected, driverId) ==
  IF selected = <<>> THEN <<>>
  ELSE LET b  == Head(selected)
           w1 == CancelBookingsOfTrip(d, driverId)
           w2 == RefundTripBooking(w1, rows[b], b)
       IN  <<w1, w2>> \o cancelTripLoop(w2, rows, Tail(selected), driverId)

cancelTripError(d, tripId, driverId) ==
  IF ~OwnTrip(d, tripId, driverId) THEN "trip_not_found"
  ELSE IF d.trips[tripId].status = "cancelled" THEN "trip_already_cancelled"
  ELSE "ok"

cancelTripWrites(d, tripId, driverId) ==
  LET w1 == [d EXCEPT !.trips[tripId].status = "cancelled"]
      selected == SelectLiveBookings(w1.bookings, tripId)
      loop == cancelTripLoop(w1, w1.bookings, selected, driverId)
      before == <<w1>> \o loop
      wN == InsertLog(before[Len(before)], driverId, "trip_cancellation", tripId)
  IN  before \o <<wN>>

cancelTrip(d, tripId, driverId, failAt) ==
  LET err == cancelTripError(d, tripId, driverId)
  IN  IF err # "ok" THEN Fail(d, err)
      ELSE transaction(d, cancelTripWrites(d, tripId, driverId), failAt)

\* an UPDATE of the bookings without WHERE trip_id = $2
CompleteAllBookings(d, tripId) ==
  [d EXCEPT !.bookings =
     [b \in Ids(d.bookings) |->
        IF d.bookings[b].status = "confirmed"
          THEN [d.bookings[b] EXCEPT !.status = "completed"]
          ELSE d.bookings[b]]]

\* UPDATE bookings SET status = 'completed' WHERE trip_id = $2 AND status = 'confirmed'
CompleteBookingsOfTrip(d, tripId) ==
  [d EXCEPT !.bookings =
     [b \in Ids(d.bookings) |->
        IF d.bookings[b].trip_id = tripId /\ d.bookings[b].status = "confirmed"
          THEN [d.bookings[b] EXCEPT !.status = "completed"]
          ELSE d.bookings[b]]]

completeTripError(d, tripId, driverId) ==
  IF ~OwnTrip(d, tripId, driverId) THEN "trip_not_found"
  ELSE IF d.trips[tripId].status # "in_progress" THEN "trip_not_in_progress"
  ELSE "ok"

completeTripWrites(d, tripId, driverId) ==
  LET w1 == [d EXCEPT !.trips[tripId].status = "completed"]
      w2 == CompleteBookingsOfTrip(w1, tripId)
      w3 == InsertLog(w2, driverId, "trip_completion", tripId)
  IN  <<w1, w2, w3>>

completeTrip(d, tripId, driverId, failAt) ==
  LET err == completeTripError(d, tripId, driverId)
  IN  IF err # "ok" THEN Fail(d, err)
      ELSE transaction(d, completeTripWrites(d, tripId, driverId), failAt)

\* The trip is under way: status 'active' becomes 'in_progress'.  No service
\* method of the sources sets it; completeTrip requires it.
startTrip(d, tripId) ==
  IF tripId \in Ids(d.trips) /\ d.trips[tripId].status = "active"
    THEN [db |-> [d EXCEPT !.trips[tripId].status = "in_progress"], res |-> "ok"]
    ELSE Fail(d, "trip_not_active")

\* ------------------------------------------------------------ UserService
addUserCredit(d, userId, amount, transactionType, failAt) ==
  LET currentBalance == d.credit_balance[userId]
      newBalance == currentBalance + amount
  IN  transaction(d, <<InsertLedger(d, userId, amount, transactionType,
                                    currentBalance, newBalance, 0, 0)>>, failAt)

\* a deduction that does not look at the balance
deductUnchecked(d, userId, amount, transactionType, failAt) ==
  LET currentBalance == d.credit_balance[userId]
      newBalance == currentBalance - amount
  IN  transaction(d, <<InsertLedger(d, userId, -amount, transactionType,
                                    currentBalance, newBalance, 0, 0)>>, failAt)

deductUserCredit(d, userId, amount, transactionType, failAt) ==
  LET currentBalance == d.credit_balance[userId]
      newBalance == currentBalance - amount
  IN  IF currentBalance < amount THEN Fail(d, "insufficient_credit")
      ELSE transaction(d, <<InsertLedger(d, userId, -amount, transactionType,
                                         currentBalance, newBalance, 0, 0)>>, failAt)

\* --------------------------------------------------------- PaymentService
NewPayment(userId, bookingId, amount, method, status) ==
  [user_id |-> userId, booking_id |-> bookingId, amount |-> amount,
   payment_method |-> method, status |-> status, refunded_amount |-> 0,
   external_payment_id |-> 0, failure_reason |-> "none"]

\* what the Vipps API answers to getVippsPaymentDetails
\* (transactionInfo.status), "error" when the request throws
VippsAnswers == {"CHARGED", "CANCELLED", "REJECTED", "error"}

\* UPDATE payments SET status = $1, failure_reason = $2 WHERE id = $3
SetPaymentFailed(d, paymentId, reason) ==
  [d EXCEPT !.payments[paymentId].status = "failed",
            !.payments[paymentId].failure_reason = reason]

\* INSERT INTO payments (... 'vipps', 'pending'); then, the order accepted by
\* Vipps, its orderId (the payment's id, as sent) and status 'processing',
\* or, the request to Vipps thrown, status 'failed' and the reason
initializeVippsPaymentWrites(d, userId, amount, bookingId, gatewayOk) ==
  LET w1 == [d EXCEPT !.payments =
               Append(@, NewPayment(userId, bookingId, amount, "vipps", "pending"))]
      id == Len(w1.payments)
      w2 == IF gatewayOk
              THEN [w1 EXCEPT !.payments[id].external_payment_id = id,
                              !.payments[id].status = "processing"]
              ELSE SetPaymentFailed(w1, id, "vipps_error")
  IN  <<w1, w2>>

\* the catch block ends in throw new Error(...): transaction rolls back
initializeVippsPayment(d, userId, amount, bookingId, gatewayOk, failAt) ==
  LET writes == initializeVippsPaymentWrites(d, userId, amount, bookingId, gatewayOk)
  IN  IF gatewayOk \/ failAt \in 1..Len(writes) THEN transaction(d, writes, failAt)
      ELSE [db |-> Rollback(d, writes[Len(writes)]), res |-> "vipps_init_failed"]

\* SELECT * FROM payments WHERE external_payment_id = $1: rows[0], 0 if none
PaymentOfOrder(d, orderId) ==
  LET found == {p \in Ids(d.payments) : d.payments[p].external_payment_id = orderId}
  IN  IF found = {} THEN 0 ELSE CHOOSE p \in found : \A q \in found : p <= q

\* the writes of the callback when CHARGED leaves the booking alone
callbackWithoutBooking(d, paymentId, answer) ==
  LET payment == d.payments[paymentId]
  IN  CASE answer = "CHARGED" ->
             LET w1 == [d EXCEPT !.payments[paymentId].status = "completed"]
             IN  <<w1, InsertLog(w1, payment.user_id, "payment_completed",
                                 payment.booking_id)>>
        [] answer = "CANCELLED" ->
             <<[d EXCEPT !.payments[paymentId].status = "cancelled"]>>
        [] answer = "REJECTED" -> <<SetPaymentFailed(d, paymentId, "rejected")>>
        [] answer = "error" -> <<SetPaymentFailed(d, paymentId, "vipps_error")>>

\* the writes of the callback for the answer of Vipps
processVippsCallbackWrites(d, paymentId, answer) ==
  LET payment == d.payments[paymentId]
  IN  CASE answer = "CHARGED" ->
             LET w1 == [d EXCEPT !.payments[paymentId].status = "completed"]
                 booked == IF payment.booking_id # 0
                             THEN <<[w1 EXCEPT !.bookings[payment.booking_id].payment_status
                                                  = "completed"]>>
                             ELSE <<>>
                 before == <<w1>> \o booked
             IN  before \o <<InsertLog(before[Len(before)], payment.user_id,
                                       "payment_completed", payment.booking_id)>>
        [] answer = "CANCELLED" ->
             <<[d EXCEPT !.payments[paymentId].status = "cancelled"]>>
        [] answer = "REJECTED" -> <<SetPaymentFailed(d, paymentId, "rejected")>>
        [] answer = "error" -> <<SetPaymentFailed(d, paymentId, "vipps_error")>>

\* on an error of the request to Vipps the catch block rethrows it
processVippsCallback(d, orderId, answer, failAt) ==
  LET paymentId == PaymentOfOrder(d, orderId)
      writes == processVippsCallbackWrites(d, paymentId, answer)
  IN  IF paymentId = 0 THEN Fail(d, "payment_not_found")
      ELSE IF answer # "error" \/ failAt \in 1..Len(writes)
        THEN transaction(d, writes, failAt)
      ELSE [db |-> Rollback(d, writes[Len(writes)]), res |-> "vipps_error"]

\* a credit payment inserted as 'processing', to be settled later
creditPaymentDeferred(d, userId, amount, bookingId) ==
  <<[d EXCEPT !.payments =
       Append(@, NewPayment(userId, bookingId, amount, "credit", "processing"))]>>

processCreditPaymentWrites(d, userId, amount, bookingId) ==
  LET creditBalance == d.credit_balance[userId]
      newBalance == creditBalance - amount
      w1 == [d EXCEPT !.payments =
               Append(@, NewPayment(userId, bookingId, amount, "credit", "completed"))]
      w2 == InsertLedger(w1, userId, -amount, "payment", creditBalance, newBalance,
                         bookingId, Len(w1.payments))
      w3 == IF bookingId \in Ids(w2.bookings)
              THEN [w2 EXCEPT !.bookings[bookingId].payment_status = "completed"]
              ELSE w2
  IN  <<w1, w2, w3>>

processCreditPayment(d, userId, amount, bookingId, failAt) ==
  IF d.credit_balance[userId] < amount THEN Fail(d, "insufficient_credit")
  ELSE transaction(d, processCreditPaymentWrites(d, userId, amount, bookingId), failAt)

\* the checks without the one of the amount
refundAnyAmount(d, paymentId, refundAmount) ==
  IF paymentId \notin Ids(d.payments) \/ d.payments[paymentId].status # "completed"
    THEN "payment_not_eligible"
  ELSE "ok"

processRefundError(d, paymentId, refundAmount) ==
  IF paymentId \notin Ids(d.payments) \/ d.payments[paymentId].status # "completed"
    THEN "payment_not_eligible"
  ELSE IF refundAmount > d.payments[paymentId].amount THEN "refund_exceeds_amount"
  ELSE "ok"

\* UPDATE payments SET refunded_amount = $1 WHERE id = $3
SetRefunded(d, paymentId, refundAmount) ==
  [d EXCEPT !.payments[paymentId].refunded_amount = refundAmount]

processRefundWrites(d, paymentId, refundAmount) ==
  LET payment == d.payments[paymentId]
      currentBalance == d.credit_balance[payment.user_id]
      newBalance == currentBalance + refundAmount
      credit == IF payment.payment_method = "credit"
                  THEN <<InsertLedger(d, payment.user_id, refundAmount, "refund",
                                      currentBalance, newBalance, 0, paymentId)>>
                  ELSE <<>>
      last == IF credit = <<>> THEN d ELSE credit[1]
  IN  credit \o <<SetRefunded(last, paymentId, refundAmount)>>

\* gatewayOk: the Vipps refund call of a Vipps payment returned without error
processRefund(d, paymentId, refundAmount, gatewayOk, failAt) ==
  LET err == processRefundError(d, paymentId, refundAmount)
  IN  IF err # "ok" THEN Fail(d, err)
      ELSE IF d.payments[paymentId].payment_method = "vipps" /\ ~gatewayOk
        THEN Fail(d, "refund_failed")
      ELSE transaction(d, processRefundWrites(d, paymentId, refundAmount), failAt)

RefundAmounts == {300, 500, 1000}

\* ---------------------------------------------------------------- actions
\* a statement of the transaction may throw (failAt > 0) or none does (0)
Faults == {0, 2}

\* one request served: r is what the service method returned
Serve(r) ==
  /\ commits < MaxCommits
  /\ db' = r.db
  /\ commits' = IF r.res = "ok" THEN commits + 1 ELSE commits
  /\ UNCHANGED tx

CreateTrip ==
  /\ Len(db.trips) < MaxTrips
  /\ \E u \in Users, td \in TripData, f \in Faults :
        Serve(createTrip(db, u, td, f))

UpdateTrip ==
  \E t \in Ids(db.trips), u \in Users, upd \in UpdateData, f \in Faults :
     Serve(updateTrip(db, t, u, upd, f))

CancelTrip ==
  \E t \in Ids(db.trips), u \in Users, f \in Faults :
     Serve(cancelTrip(db, t, u, f))

StartTrip ==
  \E t \in Ids(db.trips) : Serve(startTrip(db, t))

CompleteTrip ==
  \E t \in Ids(db.trips), u \in Users, f \in Faults :
     Serve(completeTrip(db, t, u, f))

CreateBooking ==
  \E u \in Users, bd \in BookingData, t \in Times, f \in Faults :
     Serve(createBooking(db, u, bd, t, f))

ConfirmBooking ==
  \E b \in Ids(db.bookings), u \in Users, f \in Faults :
     Serve(confirmBooking(db, b, u, f))

CancelBooking ==
  \E b \in Ids(db.bookings), u \in Users, t \in Times, f \in Faults :
     Serve(cancelBooking(db, b, u, t, f))

AddUserCredit ==
  /\ Len(db.ledger) < MaxLedger
  /\ \E u \in Payers, a \in Amounts, f \in Faults :
     Serve(addUserCredit(db, u, a, "purchase", f))

DeductUserCredit ==
  /\ Len(db.ledger) < MaxLedger
  /\ \E u \in Payers, a \in Amounts, f \in Faults :
     Serve(deductUserCredit(db, u, a, "payment", f))

ProcessCreditPayment ==
  /\ Len(db.payments) < MaxPayments
  /\ Len(db.ledger) < MaxLedger
  /\ \E u \in Payers, a \in Amounts, b \in Ids(db.bookings), f \in Faults :
     Serve(processCreditPayment(db, u, a, b, f))

ProcessRefund ==
  /\ Len(db.ledger) < MaxLedger
  /\ \E p \in Ids(db.payments), a \in RefundAmounts, ok \in BOOLEAN, f \in Faults :
     Serve(processRefund(db, p, a, ok, f))

InitializeVippsPayment ==
  /\ Len(db.payments) < MaxPayments
  /\ \E u \in Payers, a \in Amounts, b \in {0} \cup Ids(db.bookings),
        ok \in BOOLEAN, f \in Faults :
        Serve(initializeVippsPayment(db, u, a, b, ok, f))

ProcessVippsCallback ==
  \E o \in 1..MaxPayments, answer \in VippsAnswers, f \in Faults :
     Serve(processVippsCallback(db, o, answer, f))

Init ==
  /\ db = EmptyDb
  /\ commits = 0
  /\ tx = <<>>

Next ==
  \/ CreateTrip
  \/ UpdateTrip
  \/ CancelTrip
  \/ StartTrip
  \/ CompleteTrip
  \/ CreateBooking
  \/ ConfirmBooking
  \/ CancelBooking
  \/ AddUserCredit
  \/ DeductUserCredit
  \/ ProcessCreditPayment
  \/ ProcessRefund

Spec == Init /\ [][Next]_vars

\* ------------------------------------------------------------ two trips
\* The driver offers two trips of two seats, one that accepts bookings by
\* itself and one that does not; passengers book seats on either, the driver
\* confirms, the trips get under way and are completed.
FleetTrip(accept) ==
  [total_seats |-> 2, available_seats |-> 2, price_per_seat |-> 1000,
   auto_accept_bookings |-> accept, departure_time |-> 48]

\* the request bodies of createBooking for a seat on one of the trips
FleetBookingData ==
  [trip_id : {1, 2}, seats_booked : {1}, payment_method : Methods]

BookOnFleet ==
  \E u \in Users, bd \in FleetBookingData, f \in Faults :
     Serve(createBooking(db, u, bd, 0, f))

InitFleet ==
  /\ db = createTrip(createTrip(EmptyDb, 1, FleetTrip(FALSE), 0).db,
                     1, FleetTrip(TRUE), 0).db
  /\ commits = 0
  /\ tx = <<>>

NextFleet ==
  \/ BookOnFleet
  \/ ConfirmBooking
  \/ CancelBooking
  \/ StartTrip
  \/ CompleteTrip

SpecFleet == InitFleet /\ [][NextFleet]_vars

\* ------------------------------------------------------- odd prices
\* A confirmed credit booking of one seat on a trip of any price up to
\* MaxPrice minor units is cancelled.
MaxPrice == 21

OddTrip(price) ==
  [total_seats |-> 2, available_seats |-> 2, price_per_seat |-> price,
   auto_accept_bookings |-> FALSE, departure_time |-> 48]

InitOdd ==
  /\ \E price \in 0..MaxPrice :
        db = createBooking(createTrip(EmptyDb, 1, OddTrip(price), 0).db, 2,
                           [trip_id |-> 1, seats_booked |-> 1,
                            payment_method |-> "credit"], 0, 0).db
  /\ commits = 2
  /\ tx = <<>>

NextOdd == CancelBooking

SpecOdd == InitOdd /\ [][NextOdd]_vars

\* ------------------------------------------------------------ payments
\* The requests of PaymentService on a database that holds a trip and a
\* booking of passenger 2 on it; commits counts the transactions of
\* PaymentService.
InitPay ==
  /\ \E td \in TripData, bd \in BookingData :
        LET r == createBooking(createTrip(EmptyDb, 1, td, 0).db, 2, bd, 0, 0)
        IN  /\ td.available_seats = td.total_seats
            /\ r.res = "ok"
            /\ db = r.db
  /\ commits = 0
  /\ tx = <<>>

NextPay ==
  \/ InitializeVippsPayment
  \/ ProcessVippsCallback
  \/ ProcessCreditPayment
  \/ ProcessRefund

SpecPay == InitPay /\ [][NextPay]_vars

\* ------------------------------------------- concurrent createBooking
\* Two createBooking requests, of two passengers or of one, run at the same
\* time.  Each request is its own connection and transaction (BEGIN without an isolation level: READ
\* COMMITTED): a SELECT reads what is committed when it runs, the rows a
\* transaction inserts and the seat count it writes are seen by the other
\* only after COMMIT, and UPDATE trips waits while the other transaction
\* holds the lock on the row, then works on the committed row.
Passengers == {2, 3}

\* the two requests in flight
Sessions == {1, 2}

NoRequest == [trip_id |-> 0, seats_booked |-> 0, payment_method |-> "none"]

\* tx[p]: the passenger of request p, where the request stands, the request
\* body, the available_seats its SELECT read, the available_seats its UPDATE
\* wrote
Idle ==
  [user |-> 0, pc |-> "idle", res |-> "none", req |-> NoRequest,
   seen |-> 0, avail |-> 0]

InTransaction == {"trip_read", "checked", "inserted", "updated", "settled"}

\* the UPDATE of p's transaction locked the row of the trip until it ends
HoldsLock(p, tripId) ==
  tx[p].pc \in {"updated", "settled"} /\ tx[p].req.trip_id = tripId

Raise(p, err) ==
  /\ tx' = [tx EXCEPT ![p].pc = "failed", ![p].res = err]
  /\ UNCHANGED <<db, commits>>

\* BEGIN; SELECT ... FROM trips WHERE id = $1 AND status = 'active' AND
\* departure_time > CURRENT_TIMESTAMP; the check of the driver
SelectTrip(p) ==
  /\ tx[p].pc = "idle"
  /\ \E bd \in BookingData, t \in Times :
        IF \/ bd.trip_id \notin Ids(db.trips)
           \/ db.trips[bd.trip_id].status # "active"
           \/ ~(db.trips[bd.trip_id].departure_time > t)
          THEN Raise(p, "trip_not_available")
        ELSE IF db.trips[bd.trip_id].driver_id = tx[p].user THEN Raise(p, "own_trip")
        ELSE /\ tx' = [tx EXCEPT ![p].pc = "trip_read", ![p].req = bd,
                                 ![p].seen = db.trips[bd.trip_id].available_seats]
             /\ UNCHANGED <<db, commits>>

\* SELECT id FROM bookings WHERE trip_id = $1 AND passenger_id = $2; the
\* check of the seats on the row read by SelectTrip; the check of the credit
CheckBooking(p) ==
  /\ tx[p].pc = "trip_read"
  /\ IF BookingExists(db, tx[p].req.trip_id, tx[p].user) THEN Raise(p, "duplicate_booking")
     ELSE IF tx[p].seen < tx[p].req.seats_booked THEN Raise(p, "insufficient_seats")
     ELSE IF /\ tx[p].req.payment_method = "credit"
             /\ db.credit_balance[tx[p].user]
                  < TotalPrice(db.trips[tx[p].req.trip_id], tx[p].req.seats_booked)
       THEN Raise(p, "insufficient_credit")
     ELSE /\ tx' = [tx EXCEPT ![p].pc = "checked"]
          /\ UNCHANGED <<db, commits>>

\* INSERT INTO bookings ...: the row is the transaction's own until COMMIT
InsertBooking(p) ==
  /\ tx[p].pc = "checked"
  /\ tx' = [tx EXCEPT ![p].pc = "inserted"]
  /\ UNCHANGED <<db, commits>>

\* UPDATE trips SET available_seats = available_seats - $1 WHERE id = $2
UpdateSeats(p) ==
  /\ tx[p].pc = "inserted"
  /\ \A q \in Sessions \ {p} : ~HoldsLock(q, tx[p].req.trip_id)
  /\ tx' = [tx EXCEPT ![p].pc = "updated",
                      ![p].avail = db.trips[tx[p].req.trip_id].available_seats
                                     - tx[p].req.seats_booked]
  /\ UNCHANGED <<db, commits>>

\* the debit and the status of the booking, the activity log
SettleBooking(p) ==
  /\ tx[p].pc = "updated"
  /\ tx' = [tx EXCEPT ![p].pc = "settled"]
  /\ UNCHANGED <<db, commits>>

\* COMMIT: the writes of the transaction become the committed database
CommitBooking(p) ==
  /\ tx[p].pc = "settled"
  /\ db' = [LastRow(createBookingWrites(db, tx[p].user, tx[p].req))
              EXCEPT !.trips[tx[p].req.trip_id].available_seats = tx[p].avail]
  /\ commits' = commits + 1
  /\ tx' = [tx EXCEPT ![p].pc = "done", ![p].res = "ok"]

\* a statement throws: ROLLBACK
ThrowBooking(p) ==
  /\ tx[p].pc \in InTransaction
  /\ Raise(p, "db_error")

\* the trip of the scenario: created by the driver with one seat to book
InitConc ==
  /\ \E td \in TripData :
        /\ td.available_seats = 1
        /\ db = createTrip(EmptyDb, 1, td, 0).db
  /\ commits = 1
  /\ tx \in [Sessions -> {[Idle EXCEPT !.user = u] : u \in Passengers}]

NextConc ==
  \E p \in Sessions :
     \/ SelectTrip(p)
     \/ CheckBooking(p)
     \/ InsertBooking(p)
     \/ UpdateSeats(p)
     \/ SettleBooking(p)
     \/ CommitBooking(p)
     \/ ThrowBooking(p)

SpecConc == InitConc /\ [][NextConc]_vars

\* ------------------------------------------- concurrent cancelBooking
\* The passenger and the driver cancel the same booking at the same time,
\* each in a transaction of its own (READ COMMITTED).  The SELECT of the
\* booking takes no lock; UPDATE bookings ... WHERE id = $4 waits while the
\* other transaction holds the lock on the row and then updates it, as its
\* WHERE clause does not look at the status.
Cancellers == {1, 2}

NoBooking == [status |-> "none"]

\* tx[a]: where the request of a stands, the booking row and the clock it
\* read, the available_seats its UPDATE trips wrote
IdleCancel ==
  [pc |-> "idle", res |-> "none", seen |-> NoBooking, now |-> 0, avail |-> 0]

\* the booking the two requests are about
TheBooking == 1

\* the UPDATE bookings of a's transaction locked the row until it ends
HoldsBookingLock(a) == tx[a].pc \in {"marked", "released", "settled"}

\* BEGIN; SELECT b.*, t.driver_id, t.departure_time ... WHERE b.id = $1; the
\* checks of the caller and of the status
SelectBooking(a) ==
  /\ tx[a].pc = "idle"
  /\ \E t \in Times :
        LET err == cancelBookingError(db, TheBooking, a)
        IN  IF err # "ok" THEN Raise(a, err)
            ELSE /\ tx' = [tx EXCEPT ![a].pc = "booking_read",
                                     ![a].seen = db.bookings[TheBooking],
                                     ![a].now = t]
                 /\ UNCHANGED <<db, commits>>

\* UPDATE bookings SET status = 'cancelled', cancelled_by = $2 WHERE id = $4
MarkCancelled(a) ==
  /\ tx[a].pc = "booking_read"
  /\ \A o \in Cancellers \ {a} : ~HoldsBookingLock(o)
  /\ tx' = [tx EXCEPT ![a].pc = "marked"]
  /\ UNCHANGED <<db, commits>>

\* UPDATE trips SET available_seats = available_seats + $1 WHERE id = $2,
\* with the seats_booked of the row read
ReturnSeats(a) ==
  /\ tx[a].pc = "marked"
  /\ tx' = [tx EXCEPT ![a].pc = "released",
                      ![a].avail = db.trips[tx[a].seen.trip_id].available_seats
                                     + tx[a].seen.seats_booked]
  /\ UNCHANGED <<db, commits>>

\* the refund, decided on the row read, and the activity log
SettleCancel(a) ==
  /\ tx[a].pc = "released"
  /\ tx' = [tx EXCEPT ![a].pc = "settled"]
  /\ UNCHANGED <<db, commits>>

\* COMMIT: the writes of the transaction, made with the row it read, become
\* the committed database
CommitCancel(a) ==
  /\ tx[a].pc = "settled"
  /\ db' = [LastRow(cancelBookingWrites(
                      [db EXCEPT !.bookings[TheBooking] = tx[a].seen],
                      TheBooking, a, tx[a].now))
              EXCEPT !.trips[tx[a].seen.trip_id].available_seats = tx[a].avail]
  /\ commits' = commits + 1
  /\ tx' = [tx EXCEPT ![a].pc = "done", ![a].res = "ok"]

\* a statement throws: ROLLBACK
ThrowCancel(a) ==
  /\ tx[a].pc \in {"booking_read", "marked", "released", "settled"}
  /\ Raise(a, "db_error")

\* a trip of the driver and the booking a passenger made on it
InitCancel ==
  /\ \E td \in TripData, bd \in BookingData :
        LET r == createBooking(createTrip(EmptyDb, 1, td, 0).db, 2, bd, 0, 0)
        IN  /\ td.available_seats = td.total_seats
            /\ r.res = "ok"
            /\ db = r.db
  /\ commits = 2
  /\ tx = [a \in Cancellers |-> IdleCancel]

NextCancel ==
  \E a \in Cancellers :
     \/ SelectBooking(a)
     \/ MarkCancelled(a)
     \/ ReturnSeats(a)
     \/ SettleCancel(a)
     \/ CommitCancel(a)
     \/ ThrowCancel(a)

SpecCancel == InitCancel /\ [][NextCancel]_vars

\* ---------------------------------------------------- concurrent debits
\* Two requests that debit the credit of one user run at the same time: a
\* createBooking paid by credit, deductUserCredit or processCreditPayment.
\* Each reads users.credit_balance, checks it against its amount and then
\* writes its rows; nothing is locked.
Debtor == 3

DebitOps == {"book", "deduct", "pay"}

DebitAmounts == {500, 1000, 1500}

\* tx[p]: where the request stands, what it is, the balance it read
IdleDebit ==
  [pc |-> "idle", res |-> "none", op |-> "none", amount |-> 0, seats |-> 0, seen |-> 0]

BookByCredit(seats) ==
  [trip_id |-> 1, seats_booked |-> seats, payment_method |-> "credit"]

\* what the checks of the request say
DebitError(d, op, amount, seats) ==
  CASE op = "book" -> createBookingError(d, Debtor, BookByCredit(seats), 0)
    [] op = "deduct" -> deductUserCredit(d, Debtor, amount, "payment", 0).res
    [] op = "pay" -> processCreditPayment(d, Debtor, amount, 1, 0).res

\* the database after the writes of the request
DebitWrites(d, op, amount, seats) ==
  CASE op = "book" -> LastRow(createBookingWrites(d, Debtor, BookByCredit(seats)))
    [] op = "deduct" -> deductUserCredit(d, Debtor, amount, "payment", 0).db
    [] op = "pay" -> processCreditPayment(d, Debtor, amount, 1, 0).db

\* BEGIN; SELECT credit_balance FROM users WHERE id = $1; the checks
ReadBalance(p) ==
  /\ tx[p].pc = "idle"
  /\ \E op \in DebitOps, a \in DebitAmounts, n \in SeatCounts :
        LET amount == IF op = "book" THEN 0 ELSE a
            seats == IF op = "book" THEN n ELSE 0
            err == DebitError(db, op, amount, seats)
        IN  IF err # "ok" THEN Raise(p, err)
            ELSE /\ tx' = [tx EXCEPT ![p].pc = "read", ![p].op = op,
                                     ![p].amount = amount, ![p].seats = seats,
                                     ![p].seen = db.credit_balance[Debtor]]
                 /\ UNCHANGED <<db, commits>>

\* the INSERTs, made with the balance read, and COMMIT
CommitDebit(p) ==
  /\ tx[p].pc = "read"
  /\ db' = [DebitWrites([db EXCEPT !.credit_balance[Debtor] = tx[p].seen],
                        tx[p].op, tx[p].amount, tx[p].seats)
              EXCEPT !.credit_balance = db.credit_balance]
  /\ commits' = commits + 1
  /\ tx' = [tx EXCEPT ![p].pc = "done", ![p].res = "ok"]

\* a statement throws: ROLLBACK
ThrowDebit(p) ==
  /\ tx[p].pc = "read"
  /\ Raise(p, "db_error")

\* a trip at 1000 a seat and a cash booking of passenger 2 on it
InitDebit ==
  /\ db = createBooking(createTrip(EmptyDb, 1,
                                   [total_seats |-> 2, available_seats |-> 2,
                                    price_per_seat |-> 1000,
                                    auto_accept_bookings |-> FALSE,
                                    departure_time |-> 48], 0).db,
                        2, [trip_id |-> 1, seats_booked |-> 1,
                            payment_method |-> "cash"], 0, 0).db
  /\ commits = 2
  /\ tx = [p \in Sessions |-> IdleDebit]

NextDebit ==
  \E p \in Sessions :
     \/ ReadBalance(p)
     \/ CommitDebit(p)
     \/ ThrowDebit(p)

SpecDebit == InitDebit /\ [][NextDebit]_vars

\* ----------------------------------------------------------- seat capacity
\* seats of the trip held by its bookings that are pending or confirmed
RECURSIVE SeatsHeld(_, _)
SeatsHeld(rows, tripId) ==
  IF rows = <<>> THEN 0
  ELSE (IF Head(rows).trip_id = tripId /\ Head(rows).status \in {"pending", "confirmed"}
          THEN Head(rows).seats_booked ELSE 0) + SeatsHeld(Tail(rows), tripId)

\* C1: every trip has 0 <= available_seats <= total_seats after any sequence
\* of createTrip, updateTrip, createBooking, confirmBooking, cancelBooking,
\* cancelTrip and completeTrip.
SeatsWithinTotal ==
  \A t \in Ids(db.trips) :
     /\ 0 <= db.trips[t].available_seats
     /\ db.trips[t].available_seats <= db.trips[t].total_seats

\* C3: on a trip with available_seats = 1, two createBooking requests of
\* different passengers for 1 seat each, their steps interleaved in any
\* order: exactly one succeeds, the other fails with the error of
\* insufficient seats, and available_seats ends at 0.
LastSeatSoldOnce ==
  LET finished == \A p \in Sessions : tx[p].pc \in {"done", "failed"}
      oneSeatEach == \A p \in Sessions :
                        /\ tx[p].req.trip_id = 1 /\ tx[p].req.seats_booked = 1
                        /\ tx[p].res \in {"ok", "insufficient_seats"}
  IN  (tx[1].user # tx[2].user /\ finished /\ oneSeatEach) =>
        /\ \E p \in Sessions :
              /\ tx[p].res = "ok"
              /\ \A q \in Sessions \ {p} : tx[q].res = "insufficient_seats"
        /\ db.trips[1].available_seats = 0

\* C2: for every trip, total_seats - available_seats is the sum of
\* seats_booked over the trip's bookings that are pending or confirmed.
SeatsAccountedFor ==
  \A t \in Ids(db.trips) :
     db.trips[t].total_seats - db.trips[t].available_seats = SeatsHeld(db.bookings, t)

\* ---------------------------------------------------------------- ledger
\* the credit transactions of a user, oldest first
LedgerOf(d, u) == SelectSeq(d.ledger, LAMBDA r : r.user_id = u)

BalanceFollowsLedger ==
  \A u \in Users :
     LET rows == LedgerOf(db, u)
     IN  /\ rows # <<>> => db.credit_balance[u] = rows[Len(rows)].balance_after
         /\ \A i \in 2..Len(rows) : rows[i].balance_before = rows[i - 1].balance_after

\* --------------------------------------------------------- booking status
StatusSteps ==
  {<<"pending", "confirmed">>, <<"confirmed", "completed">>,
   <<"pending", "cancelled">>, <<"confirmed", "cancelled">>}

\* C7: a booking's status moves only pending -> confirmed -> completed, or to
\* cancelled from pending or confirmed; completed and cancelled are terminal.
StatusMovesForward ==
  [][\A b \in Ids(db.bookings) :
        \/ db'.bookings[b].status = db.bookings[b].status
        \/ <<db.bookings[b].status, db'.bookings[b].status>> \in StatusSteps]_vars

\* ------------------------------------------------------------- atomicity
\* the statement of a transaction that throws: none (0), or the k-th write
FaultPoints == 0..6

\* an operation that raised an error has left the database as it was
Atomic(r) == r.res # "ok" => r.db = db

CreateBookingOutcome ==
  \A u \in Users, bd \in BookingData, t \in Times :
     LET r == createBooking(db, u, bd, t, 0)
         trip == db.trips[bd.trip_id]
         new == LastRow(r.db.bookings)
         debit == LastRow(r.db.ledger)
     IN  r.res = "ok" =>
           /\ Len(r.db.bookings) = Len(db.bookings) + 1
           /\ new.passenger_id = u /\ new.seats_booked = bd.seats_booked
           /\ new.total_price = trip.price_per_seat * bd.seats_booked
           /\ r.db.trips[bd.trip_id].available_seats
                = trip.available_seats - bd.seats_booked
           /\ IF bd.payment_method = "credit"
                THEN /\ new.status = "confirmed"
                     /\ Len(r.db.ledger) = Len(db.ledger) + 1
                     /\ SubSeq(r.db.ledger, 1, Len(db.ledger)) = db.ledger
                     /\ debit.user_id = u /\ debit.amount = -new.total_price
                     /\ debit.transaction_type = "payment"
                     /\ debit.booking_id = Len(r.db.bookings)
              ELSE /\ new.status = IF trip.auto_accept_bookings THEN "confirmed" ELSE "pending"
                   /\ r.db.ledger = db.ledger

\* two bookings were created on a trip of two seats: one paid by credit,
\* confirmed and debited, one paid in cash and pending
CreditAndCashBooked ==
  /\ Len(db.bookings) = 2 /\ Len(db.ledger) = 1
  /\ \E b, c \in Ids(db.bookings) :
        /\ db.bookings[b].payment_method = "credit" /\ db.bookings[b].status = "confirmed"
        /\ db.ledger[1].booking_id = b /\ db.ledger[1].amount = -1000
        /\ db.bookings[c].payment_method = "cash" /\ db.bookings[c].status = "pending"
  /\ db.trips[1].total_seats = 2 /\ db.trips[1].available_seats = 0

\* ---------------------------------------------------- booking cancellation
\* the refund fraction of the cancellation policy, in tenths
TierTenths(hours) == IF hours < 2 THEN 5 ELSE IF hours < 24 THEN 8 ELSE 10

\* the booking was paid by credit and the payment settled
WasSettled(bk) == bk.status = "confirmed" /\ bk.payment_method = "credit"

\* C9: when a confirmed credit booking is cancelled the refund is
\* total_price times 0.5 when less than 2 hours remain to departure, 0.8 when
\* less than 24 hours remain and 1.0 otherwise; exactly 2 hours refunds at
\* 0.8 and exactly 24 hours at 1.0; a total_price of 1000 refunds 500 at 1
\* hour, 800 at 10 hours and 1000 at 48 hours.
RefundTiers ==
  \A b \in Ids(db.bookings), u \in Users, t \in Times :
     LET bk == db.bookings[b]
         r == cancelBooking(db, b, u, t, 0)
         hours == db.trips[bk.trip_id].departure_time - t
         refund == LastRow(r.db.ledger)
     IN  (r.res = "ok" /\ WasSettled(bk) /\ bk.total_price > 0) =>
           /\ Len(r.db.ledger) = Len(db.ledger) + 1
           /\ refund.transaction_type = "refund" /\ refund.booking_id = b
           /\ refund.user_id = bk.passenger_id
           /\ refund.amount * 10 = bk.total_price * TierTenths(hours)
           /\ bk.total_price = 1000 =>
                /\ hours = 1 => refund.amount = 500
                /\ hours = 2 => refund.amount = 800
                /\ hours = 10 => refund.amount = 800
                /\ hours = 24 => refund.amount = 1000
                /\ hours = 48 => refund.amount = 1000

\* a confirmed credit booking of 1000 was cancelled with less than 2 hours
\* to departure and 500 were refunded
HalfRefunded ==
  \E b \in Ids(db.bookings), i \in Ids(db.ledger) :
     /\ db.bookings[b].status = "cancelled" /\ db.bookings[b].payment_method = "credit"
     /\ db.bookings[b].total_price = 1000
     /\ db.ledger[i].transaction_type = "refund" /\ db.ledger[i].booking_id = b
     /\ db.ledger[i].amount = 500

\* C10: a successful cancelBooking adds seats_booked back to the trip's
\* available_seats, whoever cancels, and writes a refund row if and only if
\* the booking was confirmed, paid by credit and the refund computed is
\* greater than 0: cancelling a pending or a non-credit booking writes no
\* ledger row.
CancelReleasesAndRefunds ==
  \A b \in Ids(db.bookings), u \in Users, t \in Times :
     LET bk == db.bookings[b]
         r == cancelBooking(db, b, u, t, 0)
         hours == db.trips[bk.trip_id].departure_time - t
         computed == (bk.total_price * TierTenths(hours)) \div 10
         refund == LastRow(r.db.ledger)
     IN  r.res = "ok" =>
           /\ r.db.bookings[b].status = "cancelled"
           /\ r.db.trips[bk.trip_id].available_seats
                = db.trips[bk.trip_id].available_seats + bk.seats_booked
           /\ IF WasSettled(bk) /\ computed > 0
                THEN /\ Len(r.db.ledger) = Len(db.ledger) + 1
                     /\ SubSeq(r.db.ledger, 1, Len(db.ledger)) = db.ledger
                     /\ refund.transaction_type = "refund" /\ refund.booking_id = b
                ELSE r.db.ledger = db.ledger

\* a credit booking and a pending cash booking of a trip were both
\* cancelled, one by the passenger and one by the driver: the seats are back
\* and the ledger holds the debit and one refund
BothCancelled ==
  /\ Len(db.ledger) = 2 /\ db.ledger[2].transaction_type = "refund"
  /\ db.trips[1].status = "active" /\ db.trips[1].total_seats = 2
  /\ db.trips[1].available_seats = 2
  /\ \E b, c \in Ids(db.bookings) :
        /\ db.bookings[b].payment_method = "credit" /\ db.bookings[b].status = "cancelled"
        /\ db.bookings[b].cancelled_by = db.bookings[b].passenger_id
        /\ db.ledger[2].booking_id = b
        /\ db.bookings[c].payment_method = "cash" /\ db.bookings[c].status = "cancelled"
        /\ db.bookings[c].cancelled_by = db.trips[1].driver_id

\* ------------------------------------------------ cancellation, rejected
\* the user may cancel the booking: its passenger or the driver of its trip
MayCancel(d, b, u) ==
  u = d.bookings[b].passenger_id \/ u = d.trips[d.bookings[b].trip_id].driver_id

\* C11: cancelBooking of a booking whose status is cancelled or completed
\* fails with the error of an invalid state and changes neither the booking,
\* the available_seats of the trip nor the ledger.
CancelRejectsTerminal ==
  \A b \in Ids(db.bookings), u \in Users, t \in Times :
     LET r == cancelBooking(db, b, u, t, 0)
     IN  db.bookings[b].status \in {"cancelled", "completed"} =>
           /\ r.res # "ok" /\ r.db = db
           /\ MayCancel(db, b, u) => r.res = "already_cancelled"

\* the refund rows of the ledger written for the booking
RefundsOf(d, b) ==
  {i \in Ids(d.ledger) :
      d.ledger[i].transaction_type = "refund" /\ d.ledger[i].booking_id = b}

\* C12: a booking has at most one refund credit transaction, and once it is
\* cancelled no later cancellation, one running at the same time included,
\* refunds it again or adds its seats to available_seats again.
RefundedOnce ==
  /\ [](\A b \in Ids(db.bookings) : Cardinality(RefundsOf(db, b)) <= 1)
  /\ [][\A b \in Ids(db.bookings) :
           db.bookings[b].status = "cancelled" =>
             /\ RefundsOf(db', b) = RefundsOf(db, b)
             /\ db'.trips[db.bookings[b].trip_id].available_seats
                  = db.trips[db.bookings[b].trip_id].available_seats]_vars

\* ------------------------------------------------- one booking per pair
\* the bookings of the passenger on the trip, of any status
BookingsOf(d, tripId, passengerId) ==
  {b \in Ids(d.bookings) :
      d.bookings[b].trip_id = tripId /\ d.bookings[b].passenger_id = passengerId}

\* C13: a trip has at most one booking of a passenger, also when the same
\* passenger sends two createBooking requests at the same time: the second
\* fails as a duplicate.
OneBookingPerPair ==
  \A t \in Ids(db.trips), u \in Users :
     Cardinality(BookingsOf(db, t, u)) <= 1

\* ------------------------------------------------------ duplicate booking
\* the trip of the request can be booked at time t by the user
Bookable(d, u, bd, t) ==
  /\ bd.trip_id \in Ids(d.trips)
  /\ d.trips[bd.trip_id].status = "active"
  /\ d.trips[bd.trip_id].departure_time > t
  /\ d.trips[bd.trip_id].driver_id # u

\* C14: createBooking of a passenger who has a booking on the trip that is
\* not cancelled fails as a duplicate and leaves available_seats unchanged;
\* a passenger whose bookings on the trip are all cancelled is not rejected
\* as a duplicate.
DuplicateOnlyIfLive ==
  \A u \in Users, bd \in BookingData, t \in Times :
     LET r == createBooking(db, u, bd, t, 0)
         mine == BookingsOf(db, bd.trip_id, u)
     IN  Bookable(db, u, bd, t) =>
           /\ (\E b \in mine : db.bookings[b].status # "cancelled") =>
                 r.res = "duplicate_booking" /\ r.db = db
           /\ (\A b \in mine : db.bookings[b].status = "cancelled") =>
                 r.res # "duplicate_booking"

\* ----------------------------------------------------------- confirmation
\* C15: confirmBooking succeeds only on a pending booking and for the driver
\* of its trip, and then the booking is confirmed; the driver confirming a
\* booking that is already confirmed gets the error of an invalid state, a
\* user who is not the driver the error of authorization; a failed
\* confirmBooking leaves the booking unchanged.
ConfirmOnlyPendingByDriver ==
  \A b \in Ids(db.bookings), u \in Users, f \in Faults :
     LET r == confirmBooking(db, b, u, f)
         isDriver == db.trips[db.bookings[b].trip_id].driver_id = u
         pending == db.bookings[b].status = "pending"
     IN  /\ r.res = "ok" => pending /\ isDriver /\ r.db.bookings[b].status = "confirmed"
         /\ (pending /\ isDriver /\ f = 0) => r.res = "ok"
         /\ (isDriver /\ db.bookings[b].status = "confirmed") => r.res = "not_pending"
         /\ ~isDriver => r.res = "not_authorized"
         /\ r.res # "ok" => r.db = db

\* the driver confirmed a pending booking
DriverConfirmed ==
  \E b \in Ids(db.bookings) :
     /\ db.bookings[b].status = "confirmed"
     /\ LogRows(db, db.trips[db.bookings[b].trip_id].driver_id,
                "booking_confirmation", b) # {}

\* ------------------------------------------------ cancellation by others
\* C16: cancelBooking by a user who is neither the passenger of the booking
\* nor the driver of its trip fails with the error of authorization and
\* changes nothing.
CancelOnlyByParties ==
  \A b \in Ids(db.bookings), u \in Users, t \in Times, f \in Faults :
     LET r == cancelBooking(db, b, u, t, f)
     IN  ~MayCancel(db, b, u) => r.res = "not_authorized" /\ r.db = db

\* a confirmed booking that a user who is no party to it tries to cancel
StrangerRefused ==
  \E b \in Ids(db.bookings), u \in Users :
     /\ db.bookings[b].status = "confirmed"
     /\ ~MayCancel(db, b, u)
     /\ cancelBooking(db, b, u, 0, 0).res = "not_authorized"

\* ------------------------------------------------ createBooking, rejected
\* C17: createBooking of a driver on a trip of their own is rejected before
\* anything is reserved: no booking is made and available_seats is
\* unchanged; on a trip that is active and departs later than now the error
\* is the one of the policy (own trip).
OwnTripRejected ==
  \A u \in Users, bd \in BookingData, t \in Times, f \in Faults :
     LET r == createBooking(db, u, bd, t, f)
         trip == db.trips[bd.trip_id]
     IN  (bd.trip_id \in Ids(db.trips) /\ trip.driver_id = u) =>
           /\ r.res # "ok" /\ r.db = db
           /\ (trip.status = "active" /\ trip.departure_time > t) => r.res = "own_trip"

\* a trip with a free seat that its driver tries to book
DriverTriesOwnTrip ==
  \E bd \in BookingData :
     /\ bd.trip_id \in Ids(db.trips)
     /\ db.trips[bd.trip_id].available_seats >= bd.seats_booked
     /\ createBooking(db, db.trips[bd.trip_id].driver_id, bd, 0, 0).res = "own_trip"

\* C18: createBooking on a trip whose status is not active, or whose
\* departure_time is not later than now, fails as not available; no booking
\* is made, no available_seats changes and no ledger row is written.
NotBookableRejected ==
  \A u \in Users, bd \in BookingData, t \in Times, f \in Faults :
     LET r == createBooking(db, u, bd, t, f)
     IN  (/\ bd.trip_id \in Ids(db.trips)
          /\ \/ db.trips[bd.trip_id].status # "active"
             \/ db.trips[bd.trip_id].departure_time <= t) =>
           r.res = "trip_not_available" /\ r.db = db

\* a cancelled trip with a free seat, and a passenger with no booking on it
\* who tries to book it before its departure
CancelledTripRefused ==
  \E bd \in BookingData, u \in Passengers :
     /\ bd.trip_id \in Ids(db.trips)
     /\ db.trips[bd.trip_id].status = "cancelled"
     /\ db.trips[bd.trip_id].available_seats >= bd.seats_booked
     /\ BookingsOf(db, bd.trip_id, u) = {}
     /\ createBooking(db, u, bd, 0, 0).res = "trip_not_available"

\* C19: createBooking with method credit by a passenger whose credit balance
\* is lower than total_price = price_per_seat * seats_booked, on a trip the
\* passenger could otherwise book, fails for insufficient credit; no booking
\* is made, available_seats is unchanged and no ledger row is written.
InsufficientCreditRejected ==
  \A u \in Users, bd \in BookingData, t \in Times, f \in Faults :
     LET r == createBooking(db, u, bd, t, f)
     IN  (/\ Bookable(db, u, bd, t)
          /\ BookingsOf(db, bd.trip_id, u) = {}
          /\ db.trips[bd.trip_id].available_seats >= bd.seats_booked
          /\ bd.payment_method = "credit"
          /\ db.credit_balance[u]
               < db.trips[bd.trip_id].price_per_seat * bd.seats_booked) =>
           r.res = "insufficient_credit" /\ r.db = db

\* a passenger with some credit, but less than the two seats cost
TooPoorForTwo ==
  \E u \in Passengers :
     LET bd == [trip_id |-> 1, seats_booked |-> 2, payment_method |-> "credit"]
     IN  /\ 1 \in Ids(db.trips)
         /\ db.credit_balance[u] > 0
         /\ db.trips[1].available_seats = 2
         /\ createBooking(db, u, bd, 0, 0).res = "insufficient_credit"

\* -------------------------------------------------------------- round trip
\* C20: a successful createBooking for n seats followed by a successful
\* cancelBooking of the booking made leaves the trip's available_seats at
\* the value it had before the createBooking, for every n and every
\* available_seats >= n.
BookThenCancelRestores ==
  \A u \in Users, bd \in BookingData, t1 \in Times :
     LET r1 == createBooking(db, u, bd, t1, 0)
     IN  r1.res = "ok" =>
           \A c \in Users, t2 \in Times :
              LET r2 == cancelBooking(r1.db, Len(r1.db.bookings), c, t2, 0)
              IN  r2.res = "ok" =>
                    r2.db.trips[bd.trip_id].available_seats
                      = db.trips[bd.trip_id].available_seats

\* the only booking of a trip took both of its seats and was cancelled: the
\* seats are back
TwoSeatsBackAfterCancel ==
  /\ Len(db.bookings) = 1 /\ Len(db.trips) = 1
  /\ db.bookings[1].seats_booked = 2 /\ db.bookings[1].status = "cancelled"
  /\ db.trips[1].total_seats = 2 /\ db.trips[1].available_seats = 2
  /\ db.trips[1].status = "active"

\* --------------------------------------------------------------- payments
\* C21: processVippsCallback replayed with the answer CHARGED for a payment
\* that is already completed applies nothing a second time: no ledger row,
\* no change of a booking and no second payment_completed activity row.
ChargedReplayIdempotent ==
  \A o \in 1..MaxPayments :
     LET p == PaymentOfOrder(db, o)
         r == processVippsCallback(db, o, "CHARGED", 0)
     IN  (p # 0 /\ db.payments[p].status = "completed") =>
           /\ r.db.ledger = db.ledger
           /\ r.db.bookings = db.bookings
           /\ r.db.logs = db.logs

\* the steps a payment's status may take
PaymentSteps ==
  {<<"pending", "processing">>, <<"processing", "completed">>,
   <<"processing", "cancelled">>, <<"processing", "failed">>}

\* C22: the status of a payment moves only pending -> processing -> one of
\* completed, cancelled, failed, and these three are final: no later
\* processVippsCallback or processRefund changes the status of a completed
\* payment.
PaymentStatusForward ==
  [][\A p \in Ids(db.payments) :
        db'.payments[p].status # db.payments[p].status =>
          <<db.payments[p].status, db'.payments[p].status>> \in PaymentSteps]_vars

\* C23: when the request to Vipps of initializeVippsPayment throws, the call
\* returns its error and the database holds a new payment with status failed
\* and the reason of the failure.
FailedInitRecorded ==
  \A u \in Payers, a \in Amounts, b \in {0} \cup Ids(db.bookings) :
     LET r == initializeVippsPayment(db, u, a, b, FALSE, 0)
     IN  /\ r.res # "ok"
         /\ \E p \in Ids(r.db.payments) \ Ids(db.payments) :
               /\ r.db.payments[p].status = "failed"
               /\ r.db.payments[p].failure_reason # "none"

\* C24: processRefund succeeds only on a completed payment and only for an
\* amount of at most payment.amount minus what was refunded already, so
\* that the refunds of a payment never add up to more than its amount.
RefundWithinRemainder ==
  \A p \in Ids(db.payments), a \in RefundAmounts, ok \in BOOLEAN :
     LET r == processRefund(db, p, a, ok, 0)
     IN  r.res = "ok" =>
           /\ db.payments[p].status = "completed"
           /\ a <= db.payments[p].amount - db.payments[p].refunded_amount

\* C25: a successful processRefund of amount a leaves refunded_amount at its
\* value before plus a.
RefundAccumulates ==
  \A p \in Ids(db.payments), a \in RefundAmounts, ok \in BOOLEAN :
     LET r == processRefund(db, p, a, ok, 0)
     IN  r.res = "ok" =>
           r.db.payments[p].refunded_amount = db.payments[p].refunded_amount + a

\* C26: in every state every payment has refunded_amount <= amount.
RefundedWithinAmount ==
  \A p \in Ids(db.payments) :
     db.payments[p].refunded_amount <= db.payments[p].amount

\* a Vipps payment was charged and then refunded in full
RefundedInFull ==
  \E p \in Ids(db.payments) :
     /\ db.payments[p].payment_method = "vipps"
     /\ db.payments[p].status = "completed"
     /\ db.payments[p].refunded_amount = db.payments[p].amount

\* C27: processVippsCallback sets the payment to completed on CHARGED, and
\* then also sets payment_status of the payment's booking to completed and
\* writes one payment_completed activity row; it sets the payment to
\* cancelled on CANCELLED and to failed on any other answer, and then
\* leaves bookings and activity rows alone.
CallbackMapsAnswer ==
  \A o \in 1..MaxPayments, answer \in VippsAnswers \ {"error"} :
     LET p == PaymentOfOrder(db, o)
         r == processVippsCallback(db, o, answer, 0)
         b == db.payments[p].booking_id
     IN  p # 0 =>
           /\ r.res = "ok"
           /\ r.db.ledger = db.ledger /\ r.db.trips = db.trips
           /\ r.db.payments[p].status
                = CASE answer = "CHARGED" -> "completed"
                    [] answer = "CANCELLED" -> "cancelled"
                    [] OTHER -> "failed"
           /\ IF answer = "CHARGED"
                THEN /\ b # 0 => r.db.bookings[b].payment_status = "completed"
                     /\ \A c \in Ids(db.bookings) \ {b} : r.db.bookings[c] = db.bookings[c]
                     /\ Cardinality(r.db.logs) = Cardinality(db.logs) + 1
                     /\ Cardinality(LogRows(r.db, db.payments[p].user_id,
                                            "payment_completed", b))
                          = Cardinality(LogRows(db, db.payments[p].user_id,
                                                "payment_completed", b)) + 1
                ELSE r.db.bookings = db.bookings /\ r.db.logs = db.logs

\* the Vipps payment of a cash booking was charged: the payment and the
\* booking's payment_status are completed and the activity row is written
ChargedBookingPaid ==
  \E p \in Ids(db.payments) :
     LET b == db.payments[p].booking_id
     IN  /\ db.payments[p].payment_method = "vipps"
         /\ db.payments[p].status = "completed"
         /\ b # 0
         /\ db.bookings[b].payment_method = "cash"
         /\ db.bookings[b].payment_status = "completed"
         /\ LogRows(db, db.payments[p].user_id, "payment_completed", b) # {}

\* ------------------------------------------------------------ completion
\* C28: completeTrip succeeds only for the driver of the trip and only on a
\* trip in progress; it moves every confirmed booking of the trip to
\* completed and leaves the pending and cancelled bookings of the trip and
\* all bookings of other trips as they are.
CompleteTripFrame ==
  \A t \in Ids(db.trips), u \in Users, f \in Faults :
     LET r == completeTrip(db, t, u, f)
         legal == db.trips[t].driver_id = u /\ db.trips[t].status = "in_progress"
     IN  /\ r.res = "ok" => legal
         /\ (legal /\ f = 0) => r.res = "ok"
         /\ r.res # "ok" => r.db = db
         /\ r.res = "ok" =>
               \A b \in Ids(db.bookings) :
                  r.db.bookings[b]
                    = IF db.bookings[b].trip_id = t /\ db.bookings[b].status = "confirmed"
                        THEN [db.bookings[b] EXCEPT !.status = "completed"]
                        ELSE db.bookings[b]

\* a trip was completed with a booking that is completed and one that is
\* still pending, while a booking of the other trip is still confirmed
CompletedBesideOthers ==
  \E t, o \in Ids(db.trips) : \E b, c, e \in Ids(db.bookings) :
     /\ t # o
     /\ db.trips[t].status = "completed" /\ db.trips[o].status = "active"
     /\ db.bookings[b].trip_id = t /\ db.bookings[b].status = "completed"
     /\ db.bookings[c].trip_id = t /\ db.bookings[c].status = "pending"
     /\ db.bookings[e].trip_id = o /\ db.bookings[e].status = "confirmed"

\* ------------------------------------------------------------------ price
\* the amounts a refund of the booking can have: a tier of its total_price
RefundsOfPrice(total_price) ==
  {RefundAmount(total_price, pct) : pct \in {50, 80, 100}}

\* C29: the total_price of a booking is price_per_seat * seats_booked of the
\* trip when the booking is made and never changes afterwards, whatever
\* updateTrip does to the trip's price_per_seat; the amount refunded for the
\* booking is taken from that total_price.
BookingPriceFixed ==
  /\ [][/\ \A b \in Ids(db.bookings) :
             db'.bookings[b].total_price = db.bookings[b].total_price
        /\ \A b \in Ids(db'.bookings) \ Ids(db.bookings) :
             db'.bookings[b].total_price
               = db.trips[db'.bookings[b].trip_id].price_per_seat
                   * db'.bookings[b].seats_booked]_vars
  /\ [](\A b \in Ids(db.bookings) : \A i \in RefundsOf(db, b) :
           db.ledger[i].amount \in RefundsOfPrice(db.bookings[b].total_price))

\* a booking paid at 1000 a seat was refunded after the trip's price went
\* to 0
RefundedAtOldPrice ==
  \E b \in Ids(db.bookings) :
     /\ db.bookings[b].total_price = 1000 * db.bookings[b].seats_booked
     /\ db.trips[db.bookings[b].trip_id].price_per_seat = 0
     /\ db.bookings[b].status = "cancelled"
     /\ \E i \in RefundsOf(db, b) : db.ledger[i].amount > 0

\* -------------------------------------------------------------- audit log
\* the business tables: all but the activity log
Business(d) == <<d.trips, d.bookings, d.ledger, d.payments>>

\* the activity row is the last write of the method: r is what the method
\* returned when that write threw
LogFailureKept(r, writes) == Business(r.db) = Business(writes[Len(writes)])

\* C30: when the write of the activity row throws in createBooking,
\* confirmBooking, cancelBooking, cancelTrip or completeTrip, the changes the
\* method made to the bookings, the seats and the ledger persist.
LogFailureKeepsBusiness ==
  \A u \in Users :
     /\ \A bd \in BookingData, t \in {0, 48} :
           LET w == createBookingWrites(db, u, bd)
           IN  createBookingError(db, u, bd, t) = "ok" =>
                 LogFailureKept(createBooking(db, u, bd, t, Len(w)), w)
     /\ \A b \in Ids(db.bookings) :
           /\ LET w == confirmBookingWrites(db, b, u)
              IN  confirmBookingError(db, b, u) = "ok" =>
                    LogFailureKept(confirmBooking(db, b, u, Len(w)), w)
           /\ \A t \in {0, 47} :
                 LET w == cancelBookingWrites(db, b, u, t)
                 IN  cancelBookingError(db, b, u) = "ok" =>
                       LogFailureKept(cancelBooking(db, b, u, t, Len(w)), w)
     /\ \A tr \in Ids(db.trips) :
           /\ LET w == cancelTripWrites(db, tr, u)
              IN  cancelTripError(db, tr, u) = "ok" =>
                    LogFailureKept(cancelTrip(db, tr, u, Len(w)), w)
           /\ LET w == completeTripWrites(db, tr, u)
              IN  completeTripError(db, tr, u) = "ok" =>
                    LogFailureKept(completeTrip(db, tr, u, Len(w)), w)

\* --------------------------------------------------------- credit payments
\* C31: a payment made from credit never has status pending or processing:
\* processCreditPayment inserts it as completed, in the transaction that
\* writes the debit to the ledger and sets the booking's payment_status to
\* completed.
CreditPaymentSettled ==
  /\ \A p \in Ids(db.payments) :
        db.payments[p].payment_method = "credit" => db.payments[p].status = "completed"
  /\ \A u \in Payers, a \in Amounts, b \in Ids(db.bookings), f \in Faults :
        LET r == processCreditPayment(db, u, a, b, f)
            p == Len(r.db.payments)
            i == Len(r.db.ledger)
        IN  r.res = "ok" =>
              /\ p = Len(db.payments) + 1 /\ i = Len(db.ledger) + 1
              /\ r.db.payments[p].payment_method = "credit"
              /\ r.db.payments[p].status = "completed"
              /\ r.db.ledger[i].transaction_type = "payment"
              /\ r.db.ledger[i].amount = -a
              /\ r.db.ledger[i].payment_id = p /\ r.db.ledger[i].booking_id = b
              /\ r.db.bookings[b].payment_status = "completed"

\* a cash booking was paid from credit: the payment is completed, the
\* ledger holds its debit and the booking's payment_status is completed
CreditPaymentMade ==
  \E p \in Ids(db.payments), i \in Ids(db.ledger) :
     LET b == db.payments[p].booking_id
     IN  /\ db.payments[p].payment_method = "credit"
         /\ db.payments[p].status = "completed"
         /\ db.ledger[i].payment_id = p /\ db.ledger[i].transaction_type = "payment"
         /\ db.bookings[b].payment_method = "cash"
         /\ db.bookings[b].payment_status = "completed"

\* ------------------------------------------------------- seats and updates
\* C32: available_seats of a trip is changed only by the reservation of
\* createBooking, the release of cancelBooking and the steps of the trip's
\* life; updateTrip never sets it.
UpdateKeepsSeats ==
  \A t \in Ids(db.trips), u \in Users, upd \in UpdateData, f \in Faults :
     updateTrip(db, t, u, upd, f).db.trips[t].available_seats
       = db.trips[t].available_seats

CancelTripFrame ==
  \A t \in Ids(db.trips), u \in Users, f \in Faults :
     LET r == cancelTrip(db, t, u, f)
     IN  \A b \in Ids(db.bookings) :
            (\/ db.bookings[b].trip_id # t
             \/ db.bookings[b].status \notin {"pending", "confirmed"}) =>
              /\ r.db.bookings[b].status = db.bookings[b].status
              /\ r.db.bookings[b].cancelled_by = db.bookings[b].cancelled_by

\* ------------------------------------------------- ledger of a booking
\* the ledger row belongs to the booking: by its booking_id, or by the
\* booking_id of its payment
LinkedTo(d, i, b) ==
  \/ d.ledger[i].booking_id = b
  \/ /\ d.ledger[i].payment_id \in Ids(d.payments)
     /\ d.payments[d.ledger[i].payment_id].booking_id = b

\* the sum of the amounts of the ledger rows 1..n of the type that belong
\* to the booking
RECURSIVE SumLinked(_, _, _, _)
SumLinked(d, n, b, type) ==
  IF n = 0 THEN 0
  ELSE SumLinked(d, n - 1, b, type)
         + (IF d.ledger[n].transaction_type = type /\ LinkedTo(d, n, b)
              THEN d.ledger[n].amount ELSE 0)

\* C35: for every booking the refunds credited for it never add up to more
\* than the payments debited for it; a booking that was never debited gets
\* no refund from cancelTrip or cancelBooking.
RefundsWithinDebits ==
  \A b \in Ids(db.bookings) :
     SumLinked(db, Len(db.ledger), b, "refund")
       <= 0 - SumLinked(db, Len(db.ledger), b, "payment")

DebitsOf(d, b) ==
  {i \in Ids(d.ledger) :
      d.ledger[i].transaction_type = "payment" /\ d.ledger[i].booking_id = b}

\* C37: a booking is debited at most once: the ledger never holds two
\* payment rows for one booking, also when processCreditPayment is called
\* for a booking that createBooking already debited.
DebitedOnce ==
  \A b \in Ids(db.bookings) : Cardinality(DebitsOf(db, b)) <= 1

\* ------------------------------------------------------ reaching completed
\* The requests the services themselves answer: every method of
\* TripService, BookingService, UserService and PaymentService that writes.
NextSrc ==
  \/ CreateTrip
  \/ UpdateTrip
  \/ CancelTrip
  \/ CompleteTrip
  \/ CreateBooking
  \/ ConfirmBooking
  \/ CancelBooking
  \/ AddUserCredit
  \/ DeductUserCredit
  \/ ProcessCreditPayment
  \/ ProcessRefund

SpecSrc == Init /\ [][NextSrc]_vars

\* the databases that one request to TripService can leave behind d
AfterTripRequest(d) ==
  (IF Len(d.trips) < MaxTrips
     THEN {createTrip(d, u, td, f).db : u \in Users, td \in TripData, f \in Faults}
     ELSE {})
  \cup {updateTrip(d, t, u, upd, f).db :
          t \in Ids(d.trips), u \in Users, upd \in UpdateData, f \in Faults}
  \cup {cancelTrip(d, t, u, f).db : t \in Ids(d.trips), u \in Users, f \in Faults}
  \cup {completeTrip(d, t, u, f).db : t \in Ids(d.trips), u \in Users, f \in Faults}

\* the databases that one request to BookingService can leave behind d
AfterBookingRequest(d) ==
  {createBooking(d, u, bd, t, f).db :
      u \in Users, bd \in BookingData, t \in Times, f \in Faults}
  \cup {confirmBooking(d, b, u, f).db :
          b \in Ids(d.bookings), u \in Users, f \in Faults}
  \cup {cancelBooking(d, b, u, t, f).db :
          b \in Ids(d.bookings), u \in Users, t \in Times, f \in Faults}

\* the databases that one request to UserService or PaymentService can
\* leave behind d
AfterMoneyRequest(d) ==
  IF Len(d.ledger) >= MaxLedger THEN {}
  ELSE {addUserCredit(d, u, a, "purchase", f).db :
           u \in Payers, a \in Amounts, f \in Faults}
       \cup {deductUserCredit(d, u, a, "payment", f).db :
               u \in Payers, a \in Amounts, f \in Faults}
       \cup (IF Len(d.payments) < MaxPayments
               THEN {processCreditPayment(d, u, a, b, f).db :
                       u \in Payers, a \in Amounts, b \in Ids(d.bookings), f \in Faults}
               ELSE {})
       \cup {processRefund(d, p, a, ok, f).db :
               p \in Ids(d.payments), a \in RefundAmounts, ok \in BOOLEAN, f \in Faults}

AfterRequest(d) ==
  AfterTripRequest(d) \cup AfterBookingRequest(d) \cup AfterMoneyRequest(d)

\* the databases reached from those of S by at most n requests
RECURSIVE WithinRequests(_, _)
WithinRequests(S, n) ==
  IF n = 0 THEN S
  ELSE WithinRequests(S \cup UNION {AfterRequest(d) : d \in S}, n - 1)

\* trip t is completed and so is one of its bookings
TripCompleted(d, t) ==
  /\ d.trips[t].status = "completed"
  /\ \E b \in Ids(d.bookings) :
        d.bookings[b].trip_id = t /\ d.bookings[b].status = "completed"

\* trip t is active and the driver has confirmed a booking of it
ReadyToStart(d, t) ==
  /\ d.trips[t].status = "active"
  /\ \E b \in Ids(d.bookings) :
        d.bookings[b].trip_id = t /\ d.bookings[b].status = "confirmed"

\* C38: the completed state is reachable by the services' own requests:
\* from an active trip with a confirmed booking, while two requests or more
\* are left, some sequence of the requests that are left (one of them moves
\* the trip to in_progress, then completeTrip) ends with the trip and one of
\* its bookings completed.
CompletedReachable ==
  \A t \in Ids(db.trips) :
     (ReadyToStart(db, t) /\ commits + 2 <= MaxCommits) =>
       \E d \in WithinRequests({db}, MaxCommits - commits) : TripCompleted(d, t)

\* no request of the services leaves a trip in_progress or completed, nor a
\* booking completed
NeverUnderWay ==
  /\ \A t \in Ids(db.trips) : db.trips[t].status \in {"active", "cancelled"}
  /\ \A b \in Ids(db.bookings) : db.bookings[b].status # "completed"

\* ------------------------------------------ createBooking and cancelTrip
\* While createBooking requests are in flight the driver cancels the trip.
\* cancelTrip runs in a transaction of its own: its UPDATE trips waits while
\* a createBooking transaction holds the lock on the row of the trip, and
\* its SELECT of the bookings reads the committed rows only.
CancelTripMeanwhile ==
  \E t \in Ids(db.trips), u \in Users, f \in Faults :
     /\ \A q \in Sessions : ~HoldsLock(q, t)
     /\ Serve(cancelTrip(db, t, u, f))

NextRace ==
  \/ CancelTripMeanwhile
  \/ \E p \in Sessions :
        \/ SelectTrip(p)
        \/ CheckBooking(p)
        \/ InsertBooking(p)
        \/ UpdateSeats(p)
        \/ SettleBooking(p)
        \/ CommitBooking(p)
        \/ ThrowBooking(p)

SpecRace == InitConc /\ [][NextRace]_vars

\* C39: a cancelled trip has no booking that is pending or confirmed, also
\* when createBooking on the trip runs at the same time as cancelTrip.
CancelledTripHasNoLiveBooking ==
  \A t \in Ids(db.trips) :
     db.trips[t].status = "cancelled" =>
       \A b \in Ids(db.bookings) :
          db.bookings[b].trip_id = t =>
            db.bookings[b].status \notin {"pending", "confirmed"}

====
